---- MODULE Spec2Model ----
(***************************************************************************)
(* Model of the batch enrichment pipeline of clinical-trial-search:        *)
(*   - PostgresConnector (db/postgres.py): find_unprocessed_trials,        *)
(*     mark_trial_processed, save_trial_tags;                              *)
(*   - LLMProcessor.generate_trial_tags (processors/llm_tagger.py);        *)
(*   - process_trials (scripts/process_db_trials.py).                      *)
(*                                                                         *)
(* A table is a sequence of rows (the heap, in insertion order), so that a *)
(* duplicated row is visible.  A trial record is represented by its nct_id *)
(* alone: none of the properties below reads the other columns.            *)
(***************************************************************************)
EXTENDS Integers, Sequences, FiniteSets, TLC

VARIABLES
    db,        \* the ctsearch tables
    studies,   \* ctgov.studies: the set of nct_id present
    found,     \* result of the last find_unprocessed_trials call
    last,      \* the last store call: its arguments and outcome
    before,    \* db as it was before the last store call
    ncalls,    \* number of store calls made so far
    trial_data,\* generate_trial_tags: its argument
    response,  \* generate_trial_tags: the text _call_llm returned
    processed_trial, \* generate_trial_tags: its outcome
    pc,              \* process_trials: where the driver is
    max_trials,      \* process_trials: its arguments
    batch_size,
    processed_count, \* process_trials: its locals
    remaining,
    trials,
    idx,             \* position of the for loop in trials
    success,
    cause,           \* the call whose exception ended the run, if any
    log,             \* the collaborator calls made by the run, in order
    available,       \* the records that were unprocessed when the run began
    current_batch_size, \* process_trials: the limit of the current round
    resumed,         \* the command has been run again after an interrupted run
    _pool,           \* PostgresConnector._pool: None or the pool
    _lock,           \* PostgresConnector._lock: an asyncio.Lock
    task,            \* where each task calling the connector is
    via,             \* the method each task calls: connect() or acquire()
    created,         \* number of pools asyncpg.create_pool has returned
    used,            \* the pool each task found when its call went through
    waited,          \* the tasks that were suspended on _lock
    closes,          \* for each pool, the number of close() calls made on it
    main_pc,         \* main: where the command is
    api_key,         \* main: args.api_key
    exit_code        \* main: the exit code of the process, once it has exited

storeVars == <<db, studies, found, last, before, ncalls>>

parseVars == <<trial_data, response, processed_trial>>

driverVars == <<pc, max_trials, batch_size, processed_count, remaining, trials,
                idx, success, cause, log, available, current_batch_size, resumed>>

poolVars == <<_pool, _lock, task, via, created, used, waited, closes>>

mainVars == <<main_pc, api_key, exit_code>>

vars == <<db, studies, found, last, before, ncalls, trial_data, response,
         processed_trial, pc, max_trials, batch_size, processed_count,
         remaining, trials, idx, success, cause, log, available,
         current_batch_size, resumed, _pool, _lock, task, via, created, used,
         waited, closes, main_pc, api_key, exit_code>>

(***************************************************************************)
(* Bounds of the model.                                                    *)
(***************************************************************************)
NumTrials == 2
MaxVersion == 2
MaxLimit == 2
MaxCalls == 3
MaxLen == 5
NumRecords == 3
MaxMax == 4
MaxBatch == 2
NumTasks == 3

TrialIds == 1..NumTrials

\* the tasks that call the connector concurrently
Tasks == 1..NumTasks

\* Python's None, where the model holds an integer: a pool (1, 2, ...) or a
\* count (0, 1, ...) otherwise
None == 0 - 1

(***************************************************************************)
(* ctsearch.disease_stages is seeded before the pipeline runs.             *)
(***************************************************************************)
DiseaseStages ==
    << [id |-> 1, name |-> "early"],
       [id |-> 2, name |-> "locally_advanced"],
       [id |-> 3, name |-> "recurrent_metastatic"] >>

EmptyDb ==
    [ processed_trials       |-> <<>>,
      condition_tags         |-> <<>>,
      trial_conditions       |-> <<>>,
      mechanism_categories   |-> <<>>,
      trial_mechanisms       |-> <<>>,
      treatment_targets      |-> <<>>,
      trial_targets          |-> <<>>,
      simplified_eligibility |-> <<>>,
      criteria_tags          |-> <<>>,
      trial_criteria         |-> <<>>,
      trial_stage_relevance  |-> <<>> ]

TagTables ==
    { "condition_tags", "trial_conditions", "mechanism_categories",
      "trial_mechanisms", "treatment_targets", "trial_targets",
      "simplified_eligibility", "criteria_tags", "trial_criteria",
      "trial_stage_relevance" }

(***************************************************************************)
(* Tag sets handed to save_trial_tags: JSON objects, as functions from     *)
(* field names to values.  A list is a sequence; the stage_relevance       *)
(* object is the sequence of its (stage, score) items in dict order.       *)
(***************************************************************************)
EmptyObject == [k \in {} |-> <<>>]

TagsExample == [condition_tags |-> <<"NSCLC">>]

TagsFull ==
    [ condition_tags         |-> <<"NSCLC", "SCLC">>,
      mechanisms             |-> <<"immunotherapy">>,
      treatment_targets      |-> <<"PD-1">>,
      simplified_eligibility |-> "adults",
      inclusion_criteria     |-> <<"recurrent disease">>,
      exclusion_criteria     |-> <<"recurrent disease">>,
      stage_relevance        |-> << <<"early", 3>>, <<"terminal", 5>> >> ]

TagsRerun ==
    [ condition_tags         |-> <<"SCLC", "NSCLC", "SCLC">>,
      simplified_eligibility |-> "children",
      stage_relevance        |-> << <<"early", 1>> >> ]

\* {"condition_tags": {"NSCLC": 3, "SCLC": 4}}: the conditions as a JSON object
\* from name to relevance score.  condition_tags holds what
\* "for condition in tags_data['condition_tags']" yields (the keys, in dict
\* order) and condition_scores the values of those keys, in the same order.
TagsScored ==
    [ condition_tags   |-> <<"NSCLC", "SCLC">>,
      condition_scores |-> <<3, 4>> ]

TagSets == {EmptyObject, TagsExample, TagsFull, TagsRerun, TagsScored}

(***************************************************************************)
(* SQL statements of save_trial_tags, one operator per statement.          *)
(***************************************************************************)
DefaultRelevance == 5

\* a row agrees with key on every column key names
Matches(row, key) == \A c \in DOMAIN key : row[c] = key[c]

\* the table holds a row with these column values
HasRow(table, key) == \E i \in DOMAIN table : Matches(table[i], key)

\* its position (a unique key has at most one)
RowIndex(table, key) == CHOOSE i \in DOMAIN table : Matches(table[i], key)

\* a serial primary key: rows are never deleted, so the next value is past
\* every id in the table
NextSerial(table) == Len(table) + 1

\* the same statement with its ON CONFLICT clause left out and no unique index
InsertTagAlways(table, name) ==
    Append(table, [id |-> NextSerial(table), name |-> name])

\* INSERT INTO <tag table> (name) VALUES ($1)
\* ON CONFLICT (name) DO UPDATE SET name = $1 RETURNING id
UpsertTag(table, name) ==
    IF HasRow(table, [name |-> name])
    THEN table
    ELSE Append(table, [id |-> NextSerial(table), name |-> name])

\* the id the upsert returns
TagId(table, name) == table[RowIndex(table, [name |-> name])].id

\* INSERT INTO criteria_tags (criteria_name, criteria_type) VALUES ($1, <type>)
\* ON CONFLICT (criteria_name, criteria_type) DO UPDATE SET criteria_name = $1
UpsertCriteria(table, name, type) ==
    IF HasRow(table, [name |-> name, criteria_type |-> type])
    THEN table
    ELSE Append(table, [id |-> NextSerial(table), name |-> name,
                        criteria_type |-> type])

CriteriaId(table, name, type) ==
    table[RowIndex(table, [name |-> name, criteria_type |-> type])].id

\* the same statement with its ON CONFLICT clause left out and no unique index
InsertScoredLinkAlways(table, nct_id, tag_id, score) ==
    Append(table, [nct_id |-> nct_id, tag_id |-> tag_id, relevance_score |-> score])

\* the record's links deleted before the new one is inserted
ReplaceScoredLinks(table, nct_id, tag_id, score) ==
    SelectSeq(table, LAMBDA r : r.nct_id # nct_id)
      \o << [nct_id |-> nct_id, tag_id |-> tag_id, relevance_score |-> score] >>

\* INSERT INTO <link table> (nct_id, <tag>_id, relevance_score) VALUES ($1,$2,$3)
\* ON CONFLICT (nct_id, <tag>_id) DO UPDATE SET relevance_score = $3
UpsertScoredLink(table, nct_id, tag_id, score) ==
    IF HasRow(table, [nct_id |-> nct_id, tag_id |-> tag_id])
    THEN [table EXCEPT
            ![RowIndex(table, [nct_id |-> nct_id, tag_id |-> tag_id])]
                .relevance_score = score]
    ELSE Append(table, [nct_id |-> nct_id, tag_id |-> tag_id,
                        relevance_score |-> score])

\* the same statement with its ON CONFLICT clause left out and no unique index
InsertLinkAlways(table, nct_id, tag_id) ==
    Append(table, [nct_id |-> nct_id, tag_id |-> tag_id])

\* INSERT INTO <link table> (nct_id, <tag>_id) VALUES ($1, $2)
\* ON CONFLICT (nct_id, <tag>_id) DO NOTHING
InsertLink(table, nct_id, tag_id) ==
    IF HasRow(table, [nct_id |-> nct_id, tag_id |-> tag_id])
    THEN table
    ELSE Append(table, [nct_id |-> nct_id, tag_id |-> tag_id])

\* INSERT INTO simplified_eligibility (nct_id, summary) VALUES ($1, $2)
\* ON CONFLICT (nct_id) DO UPDATE SET summary = $2
UpsertEligibility(table, nct_id, summary) ==
    IF HasRow(table, [nct_id |-> nct_id])
    THEN [table EXCEPT ![RowIndex(table, [nct_id |-> nct_id])].summary = summary]
    ELSE Append(table, [nct_id |-> nct_id, summary |-> summary])

\* the lookup finding no stage at all
NoStageKnown(stage) == FALSE

\* SELECT id FROM disease_stages WHERE stage_name = $1   (NULL: no such stage)
StageKnown(stage) == HasRow(DiseaseStages, [name |-> stage])

StageId(stage) == DiseaseStages[RowIndex(DiseaseStages, [name |-> stage])].id

(***************************************************************************)
(* The statements one save_trial_tags call issues, in the order of the     *)
(* code: sections 1..7, each guarded by the presence of its field.         *)
(***************************************************************************)
Stmt(op, a, b) == [op |-> op, a |-> a, b |-> b]

RECURSIVE TagStatements(_, _, _)
TagStatements(names, upsertOp, linkOp) ==
    IF names = <<>> THEN <<>>
    ELSE << Stmt(upsertOp, Head(names), 0), Stmt(linkOp, Head(names), 0) >>
         \o TagStatements(Tail(names), upsertOp, linkOp)

RECURSIVE StageStatements(_)
StageStatements(items) ==
    IF items = <<>> THEN <<>>
    ELSE LET stage == Head(items)[1]
             score == Head(items)[2]
         IN  << Stmt("select_stage", stage, 0) >>
             \o (IF StageKnown(stage)
                 THEN << Stmt("upsert_stage_relevance", stage, score) >>
                 ELSE <<>>)
             \o StageStatements(Tail(items))

\* a missing field written as an empty summary
SectionDefault(tags, field, stmts) ==
    IF field \in DOMAIN tags THEN stmts ELSE << Stmt("upsert_eligibility", "", 0) >>

\* if "<field>" in tags_data: <the statements of the field>
Section(tags, field, stmts) == IF field \in DOMAIN tags THEN stmts ELSE <<>>

Statements(tags) ==
       Section(tags, "condition_tags",
               TagStatements(tags["condition_tags"], "upsert_condition", "link_condition"))
    \o Section(tags, "mechanisms",
               TagStatements(tags["mechanisms"], "upsert_mechanism", "link_mechanism"))
    \o Section(tags, "treatment_targets",
               TagStatements(tags["treatment_targets"], "upsert_target", "link_target"))
    \o Section(tags, "simplified_eligibility",
               << Stmt("upsert_eligibility", tags["simplified_eligibility"], 0) >>)
    \o Section(tags, "inclusion_criteria",
               TagStatements(tags["inclusion_criteria"], "upsert_inclusion", "link_inclusion"))
    \o Section(tags, "exclusion_criteria",
               TagStatements(tags["exclusion_criteria"], "upsert_exclusion", "link_exclusion"))
    \o Section(tags, "stage_relevance", StageStatements(tags["stage_relevance"]))

\* one statement executed on the connection, inside the transaction
Execute(tx, nct_id, st) ==
    CASE st.op = "upsert_condition" ->
           [tx EXCEPT !.condition_tags = UpsertTag(@, st.a)]
      [] st.op = "link_condition" ->
           [tx EXCEPT !.trial_conditions =
               UpsertScoredLink(@, nct_id, TagId(tx.condition_tags, st.a), DefaultRelevance)]
      [] st.op = "upsert_mechanism" ->
           [tx EXCEPT !.mechanism_categories = UpsertTag(@, st.a)]
      [] st.op = "link_mechanism" ->
           [tx EXCEPT !.trial_mechanisms =
               UpsertScoredLink(@, nct_id, TagId(tx.mechanism_categories, st.a), DefaultRelevance)]
      [] st.op = "upsert_target" ->
           [tx EXCEPT !.treatment_targets = UpsertTag(@, st.a)]
      [] st.op = "link_target" ->
           [tx EXCEPT !.trial_targets =
               InsertLink(@, nct_id, TagId(tx.treatment_targets, st.a))]
      [] st.op = "upsert_eligibility" ->
           [tx EXCEPT !.simplified_eligibility = UpsertEligibility(@, nct_id, st.a)]
      [] st.op = "upsert_inclusion" ->
           [tx EXCEPT !.criteria_tags = UpsertCriteria(@, st.a, "inclusion")]
      [] st.op = "link_inclusion" ->
           [tx EXCEPT !.trial_criteria =
               InsertLink(@, nct_id, CriteriaId(tx.criteria_tags, st.a, "inclusion"))]
      [] st.op = "upsert_exclusion" ->
           [tx EXCEPT !.criteria_tags = UpsertCriteria(@, st.a, "exclusion")]
      [] st.op = "link_exclusion" ->
           [tx EXCEPT !.trial_criteria =
               InsertLink(@, nct_id, CriteriaId(tx.criteria_tags, st.a, "exclusion"))]
      [] st.op = "select_stage" -> tx
      [] st.op = "upsert_stage_relevance" ->
           [tx EXCEPT !.trial_stage_relevance =
               UpsertScoredLink(@, nct_id, StageId(st.a), st.b)]

\* the first n statements, in order
RECURSIVE ExecuteAll(_, _, _, _)
ExecuteAll(tx, nct_id, stmts, n) ==
    IF n = 0 \/ stmts = <<>> THEN tx
    ELSE ExecuteAll(Execute(tx, nct_id, Head(stmts)), nct_id, Tail(stmts), n - 1)

(***************************************************************************)
(* async with conn.transaction(): the block's writes become the tables on  *)
(* a normal exit; an exception leaving the block restores the tables of    *)
(* the transaction's start.                                                *)
(***************************************************************************)
Commit(snapshot, tx) == tx

\* statements applied in autocommit mode: nothing is undone
RollbackKeepsWrites(snapshot, tx) == tx

Rollback(snapshot, tx) == snapshot

\* save_trial_tags(nct_id, tags_data).  fails: an exception is raised inside
\* the transaction block after `issued` statements have been executed.
SaveTrialTags(d, nct_id, tags, fails, issued) ==
    LET stmts == Statements(tags)
        n     == IF fails THEN issued ELSE Len(stmts)
        tx    == ExecuteAll(d, nct_id, stmts, n)
    IN  IF fails
        THEN [db |-> Rollback(d, tx), raised |-> TRUE]
        ELSE [db |-> Commit(d, tx), raised |-> FALSE]

(***************************************************************************)
(* generate_trial_tags.  The response text is a sequence of tokens:        *)
(*   "{"  "}"  ","   the JSON punctuation;                                 *)
(*   "c"  the member  "condition_tags": ["NSCLC"];                         *)
(*   "e"  the member  "error": "refused";                                  *)
(*   "n"  the key     "nested":   which an object must follow;             *)
(*   "x"  prose or markdown, no JSON syntax.                               *)
(***************************************************************************)
Alphabet == {"{", "}", ",", "c", "e", "n", "x"}

Responses == UNION {[1..n -> Alphabet] : n \in 0..MaxLen}

\* str.find(ch): the 0-based index of the first occurrence, or -1
Find(s, ch) ==
    IF \E i \in DOMAIN s : s[i] = ch
    THEN (CHOOSE i \in DOMAIN s : s[i] = ch /\ \A k \in 1..(i - 1) : s[k] # ch) - 1
    ELSE -1

\* str.rfind(ch): the 0-based index of the last occurrence, or -1
RFind(s, ch) ==
    IF \E i \in DOMAIN s : s[i] = ch
    THEN (CHOOSE i \in DOMAIN s : s[i] = ch /\ \A k \in (i + 1)..Len(s) : s[k] # ch) - 1
    ELSE -1

\* s[start:end] for 0 <= start < end <= len(s)
Slice(s, start, end) == SubSeq(s, start + 1, end)

\* dict[key] = value: a repeated key keeps the value given last
SetKey(obj, key, value) == (key :> value) @@ obj

JsonFail == [ok |-> FALSE, value |-> EmptyObject, next |-> 0]

\* The JSON decoder on an object: ParseObject reads "{" at position i and
\* returns the object with the position after its "}"; ParseMembers reads
\* member (, member)* "}" from position i with the members read so far.
RECURSIVE ParseObject(_, _), ParseMembers(_, _, _)
ParseObject(s, i) ==
    IF i + 1 > Len(s) \/ s[i] # "{" THEN JsonFail
    ELSE IF s[i + 1] = "}" THEN [ok |-> TRUE, value |-> EmptyObject, next |-> i + 2]
    ELSE ParseMembers(s, i + 1, EmptyObject)

ParseMembers(s, i, obj) ==
    LET inner == ParseObject(s, i + 1)
        m == IF i > Len(s) THEN JsonFail
             ELSE IF s[i] = "c"
                  THEN [ok |-> TRUE, value |-> SetKey(obj, "condition_tags", <<"NSCLC">>),
                        next |-> i + 1]
             ELSE IF s[i] = "e"
                  THEN [ok |-> TRUE, value |-> SetKey(obj, "error", "refused"),
                        next |-> i + 1]
             ELSE IF s[i] = "n" /\ inner.ok
                  THEN [ok |-> TRUE, value |-> SetKey(obj, "nested", inner.value),
                        next |-> inner.next]
             ELSE JsonFail
    IN  IF ~m.ok \/ m.next > Len(s) THEN JsonFail
        ELSE IF s[m.next] = "}" THEN [ok |-> TRUE, value |-> m.value, next |-> m.next + 1]
        ELSE IF s[m.next] = "," THEN ParseMembers(s, m.next + 1, m.value)
        ELSE JsonFail

\* json.loads on a text that starts with "{": the object, or JSONDecodeError
\* (ok = FALSE) when the text is no object or data follows the object
JsonLoads(s) ==
    LET r == ParseObject(s, 1)
    IN  IF r.ok /\ r.next = Len(s) + 1 THEN [ok |-> TRUE, value |-> r.value]
        ELSE [ok |-> FALSE, value |-> EmptyObject]

\* result = trial_data.copy(); result["llm_generated_tags"] = tags_data
Returned(data, tags_data) ==
    [raised |-> FALSE, value |-> SetKey(data, "llm_generated_tags", tags_data)]

\* no except clause: the decoder's exception leaves generate_trial_tags
DecodeErrorPropagates(data) == [raised |-> TRUE, value |-> data]

\* except json.JSONDecodeError
OnJSONDecodeError(data) ==
    Returned(data, [error |-> "Failed to parse JSON from LLM response"])

\* str.find in the place of str.rfind
FindForRFind(s, ch) == Find(s, ch)

LastIndex(s, ch) == RFind(s, ch)

\* result = trial_data: the assignment to result["llm_generated_tags"] is an
\* assignment to the caller's mapping
Aliased(data, result) == result

\* the caller's mapping after the call: result is trial_data.copy(), a new
\* dict, so the assignment to result["llm_generated_tags"] does not reach it
InputAfter(data, result) == data

\* generate_trial_tags(trial_data), given the text _call_llm returned
GenerateTrialTags(data, resp) ==
    LET json_start == Find(resp, "{")
        json_end   == LastIndex(resp, "}") + 1
    IN  IF json_start >= 0 /\ json_end > json_start
        THEN LET loaded == JsonLoads(Slice(resp, json_start, json_end))
             IN  IF loaded.ok THEN Returned(data, loaded.value)
                 ELSE OnJSONDecodeError(data)
        ELSE Returned(data, [error |-> "Could not extract JSON from LLM response"])

NotCalled == [raised |-> FALSE, value |-> EmptyObject]

ParseIdle ==
    /\ trial_data = EmptyObject
    /\ response = <<>>
    /\ processed_trial = NotCalled

\* the inputs of generate_trial_tags: a raw record, and a record an earlier
\* call returned with the error object (process_trials_batch output)
LlmInputs ==
    { [NCTId |-> 1, BriefTitle |-> "a trial"],
      [NCTId |-> 1, BriefTitle |-> "a trial",
       llm_generated_tags |-> [error |-> "Failed to parse JSON from LLM response"]] }

\* process_trials is not running
DriverIdle ==
    /\ pc = "idle"
    /\ max_trials = 0
    /\ batch_size = 1
    /\ processed_count = 0
    /\ remaining = 0
    /\ trials = <<>>
    /\ idx = 0
    /\ success = FALSE
    /\ cause = "none"
    /\ log = <<>>
    /\ available = {}
    /\ current_batch_size = 0
    /\ resumed = FALSE

\* asyncio.Lock(): not held, nobody waiting
NewLock == [locked |-> FALSE, waiters |-> <<>>]

\* no task is calling the connector
PoolIdle ==
    /\ _pool = None
    /\ _lock = NewLock
    /\ task = [t \in Tasks |-> "idle"]
    /\ via = [t \in Tasks |-> "connect"]
    /\ created = 0
    /\ used = [t \in Tasks |-> None]
    /\ waited = {}
    /\ closes = [p \in Tasks |-> 0]

\* the command is not running
MainIdle ==
    /\ main_pc = "idle"
    /\ api_key = ""
    /\ exit_code = 0

(***************************************************************************)
(* mark_trial_processed and find_unprocessed_trials.                       *)
(***************************************************************************)
\* INSERT INTO processed_trials ... with no ON CONFLICT clause: a second row
\* for the same nct_id is refused by the unique index and the call raises
InsertProcessedOnly(d, nct_id, succeeded, processing_version) ==
    IF HasRow(d.processed_trials, [nct_id |-> nct_id])
    THEN [db |-> d, raised |-> TRUE]
    ELSE [db |-> [d EXCEPT !.processed_trials =
                     Append(@, [nct_id |-> nct_id,
                                successfully_processed |-> succeeded,
                                processing_version |-> processing_version])],
          raised |-> FALSE]

\* the call returning without writing a row
MarkForgotten(d, nct_id, succeeded, processing_version) ==
    [db |-> d, raised |-> FALSE]

\* INSERT INTO processed_trials (nct_id, successfully_processed, processing_version)
\* VALUES ($1, $2, $3) ON CONFLICT (nct_id) DO UPDATE SET processed_at = now,
\* successfully_processed = $2, processing_version = $3
\* (the processed_at column is not modelled)
MarkTrialProcessed(d, nct_id, succeeded, processing_version) ==
    IF HasRow(d.processed_trials, [nct_id |-> nct_id])
    THEN [db |-> [d EXCEPT !.processed_trials =
                     [@ EXCEPT ![RowIndex(@, [nct_id |-> nct_id])] =
                         [nct_id |-> nct_id,
                          successfully_processed |-> succeeded,
                          processing_version |-> processing_version]]],
          raised |-> FALSE]
    ELSE [db |-> [d EXCEPT !.processed_trials =
                     Append(@, [nct_id |-> nct_id,
                                successfully_processed |-> succeeded,
                                processing_version |-> processing_version])],
          raised |-> FALSE]

\* the join without its WHERE pt.nct_id IS NULL filter
AllStudies(d, st) == st

\* FROM studies s LEFT JOIN processed_trials pt ON s.nct_id = pt.nct_id
\* WHERE pt.nct_id IS NULL
Unprocessed(d, st) ==
    {s \in st : ~HasRow(d.processed_trials, [nct_id |-> s])}

Min(a, b) == IF a <= b THEN a ELSE b

\* the sequences without repetition of exactly n elements of S
Arrangements(S, n) ==
    {q \in [1..n -> S] : \A i, j \in 1..n : i # j => q[i] # q[j]}

\* find_unprocessed_trials(limit): LIMIT $1 with no ORDER BY returns any
\* min(limit, available) of the matching rows, in any order
FindUnprocessedTrials(d, st, limit) ==
    Arrangements(Unprocessed(d, st), Min(limit, Cardinality(Unprocessed(d, st))))

(***************************************************************************)
(* The store by itself: any sequence of calls by any caller.               *)
(***************************************************************************)
NoCall ==
    [op |-> "none", nct_id |-> 0, tags |-> EmptyObject, raised |-> FALSE,
     partial |-> FALSE, repeat |-> FALSE, success |-> FALSE, version |-> 0,
     limit |-> 0]

StoreInit ==
    /\ db = EmptyDb
    /\ studies \in SUBSET TrialIds
    /\ found = <<>>
    /\ last = NoCall
    /\ before = EmptyDb
    /\ ncalls = 0
    /\ ParseIdle
    /\ DriverIdle
    /\ PoolIdle
    /\ MainIdle

StoreSave ==
    \E nct_id \in TrialIds, tags \in TagSets, fails \in BOOLEAN :
      \E issued \in (IF fails THEN 0..Len(Statements(tags))
                             ELSE {Len(Statements(tags))}) :
        LET r == SaveTrialTags(db, nct_id, tags, fails, issued) IN
        /\ ncalls < MaxCalls
        /\ ncalls' = ncalls + 1
        /\ db' = r.db
        /\ before' = db
        /\ last' = [NoCall EXCEPT
                      !.op = "save", !.nct_id = nct_id, !.tags = tags,
                      !.raised = r.raised,
                      !.partial = fails /\ issued > 0,
                      !.repeat = /\ last.op = "save"
                                 /\ ~last.raised
                                 /\ last.nct_id = nct_id
                                 /\ last.tags = tags]
        /\ UNCHANGED <<studies, found, parseVars, driverVars, poolVars, mainVars>>

StoreMark ==
    \E nct_id \in TrialIds, succeeded \in BOOLEAN, version \in 1..MaxVersion :
        LET r == MarkTrialProcessed(db, nct_id, succeeded, version) IN
        /\ ncalls < MaxCalls
        /\ ncalls' = ncalls + 1
        /\ db' = r.db
        /\ before' = db
        /\ last' = [NoCall EXCEPT
                      !.op = "mark", !.nct_id = nct_id, !.raised = r.raised,
                      !.success = succeeded, !.version = version,
                      !.repeat = HasRow(db.processed_trials, [nct_id |-> nct_id])]
        /\ UNCHANGED <<studies, found, parseVars, driverVars, poolVars, mainVars>>

StoreFind ==
    \E limit \in 0..MaxLimit :
      \E result \in FindUnprocessedTrials(db, studies, limit) :
        /\ ncalls < MaxCalls
        /\ ncalls' = ncalls + 1
        /\ found' = result
        /\ before' = db
        /\ last' = [NoCall EXCEPT !.op = "find", !.limit = limit]
        /\ UNCHANGED <<db, studies, parseVars, driverVars, poolVars, mainVars>>

StoreNext == StoreMark \/ StoreFind

SpecStore == StoreInit /\ [][StoreNext]_vars

\* the tag tables are empty; record 1 has the processed_trials row of an
\* earlier run
TagsInit ==
    /\ db = [EmptyDb EXCEPT !.processed_trials =
                << [nct_id |-> 1, successfully_processed |-> TRUE,
                    processing_version |-> 1] >>]
    /\ studies = TrialIds
    /\ found = <<>>
    /\ last = NoCall
    /\ before = db
    /\ ncalls = 0
    /\ ParseIdle
    /\ DriverIdle
    /\ PoolIdle
    /\ MainIdle

TagsNext == StoreSave

SpecTags == TagsInit /\ [][TagsNext]_vars

(***************************************************************************)
(* process_trials(db_connector, llm_processor, batch_size, max_trials).    *)
(* One action per stretch of code between two awaited calls.  Every        *)
(* awaited call either returns or raises; nothing in process_trials        *)
(* catches an exception, so a raise ends the run (pc = "aborted").         *)
(***************************************************************************)
DefaultVersion == 1

\* the texts the LLM returns in a run: prose only, the spec's example, the
\* empty object, and an object that has an "error" field of its own
DriverResponses ==
    { <<"x">>, <<"x", "{", "c", "}", "x">>, <<"{", "}">>, <<"{", "e", "}">> }

\* llm_input for a trial
LlmInput(nct_id) == [NCTId |-> nct_id, BriefTitle |-> "a trial"]

\* the trial table of a driver run
RecordIds == 1..NumRecords

\* rows an earlier run left in processed_trials for the records of P
RECURSIVE PriorRows(_, _)
PriorRows(P, i) ==
    IF i > NumRecords THEN <<>>
    ELSE (IF i \in P
          THEN << [nct_id |-> i, successfully_processed |-> (i % 2 = 0),
                   processing_version |-> DefaultVersion] >>
          ELSE <<>>) \o PriorRows(P, i + 1)

\* one collaborator call: flag is the success argument of a mark call, and
\* raised tells that the call ended in an exception
Event(call, nct_id, flag, raised) ==
    [call |-> call, nct_id |-> nct_id, flag |-> flag, raised |-> raised]

DriverInit ==
    /\ \E P \in SUBSET RecordIds :
         /\ db = [EmptyDb EXCEPT !.processed_trials = PriorRows(P, 1)]
         /\ available = RecordIds \ P
    /\ studies = RecordIds
    /\ found = <<>>
    /\ last = NoCall
    /\ before = EmptyDb
    /\ ncalls = 0
    /\ ParseIdle
    /\ pc = "loop"
    /\ max_trials \in 0..MaxMax
    /\ batch_size \in 1..MaxBatch
    /\ processed_count = 0
    /\ remaining = max_trials
    /\ trials = <<>>
    /\ idx = 0
    /\ success = FALSE
    /\ cause = "none"
    /\ log = <<>>
    /\ current_batch_size = 0
    /\ resumed = FALSE
    /\ PoolIdle
    /\ MainIdle

\* an awaited call raised: the exception leaves process_trials
Abort(call, nct_id) ==
    /\ pc' = "aborted"
    /\ cause' = call
    /\ log' = Append(log, Event(call, nct_id, FALSE, TRUE))

\* min(batch_size, remaining) replaced by batch_size
WholeBatch(size, left) == size

\* current_batch_size = min(batch_size, remaining)
CurrentBatchSize(size, left) == Min(size, left)

\* an empty batch sends the loop round again
AfterEmptyBatchRetry == "loop"

\* if not trials: break
AfterEmptyBatch == "done"

\* while True: the test of the maximum, then find_unprocessed_trials.
\* processed_count >= max_trials with max_trials None: an int and None are
\* not ordered, the comparison raises TypeError.
LoopHead ==
    /\ pc = "loop"
    /\ IF max_trials = None
       THEN /\ Abort("compare", 0)
            /\ UNCHANGED <<trials, idx, current_batch_size>>
       ELSE IF processed_count >= max_trials
       THEN /\ pc' = "done"
            /\ UNCHANGED <<trials, idx, cause, log, current_batch_size>>
       ELSE /\ current_batch_size' = CurrentBatchSize(batch_size, remaining)
            /\ \/ /\ Abort("find", 0)
                  /\ UNCHANGED <<trials, idx>>
               \/ \E batch \in FindUnprocessedTrials(db, studies, current_batch_size') :
                    /\ trials' = batch
                    /\ log' = Append(log, Event("find", Len(batch), TRUE, FALSE))
                    /\ IF batch = <<>>
                       THEN pc' = AfterEmptyBatch /\ idx' = idx
                       ELSE pc' = "extract" /\ idx' = 1
                    /\ cause' = cause
    /\ UNCHANGED <<storeVars, parseVars, max_trials, batch_size, processed_count,
                   remaining, success, available, resumed, poolVars, mainVars>>

\* the branch taken whatever success is
AlwaysSave(succeeded) == "save"

\* save_trial_tags never called
SkipSave(succeeded) == "mark"

\* if success: save_trial_tags, then mark_trial_processed; else: log the
\* error, then mark_trial_processed
AfterExtract(succeeded) == IF succeeded THEN "save" ELSE "mark"

\* processed_trial = await llm_processor.generate_trial_tags(llm_input)
\* llm_tags = processed_trial.get("llm_generated_tags", {})
\* success = "error" not in llm_tags
Extract ==
    /\ pc = "extract"
    /\ \/ /\ Abort("extract", trials[idx])
          /\ UNCHANGED <<parseVars, success>>
       \/ \E text \in DriverResponses :
            LET r == GenerateTrialTags(LlmInput(trials[idx]), text)
                llm_tags == r.value["llm_generated_tags"]
            IN  /\ trial_data' = InputAfter(LlmInput(trials[idx]), r.value)
                /\ response' = text
                /\ processed_trial' = r
                /\ IF r.raised
                   THEN /\ Abort("extract", trials[idx])
                        /\ success' = success
                   ELSE /\ success' = ("error" \notin DOMAIN llm_tags)
                        /\ pc' = AfterExtract(success')
                        /\ log' = Append(log, Event("extract", trials[idx], TRUE, FALSE))
                        /\ cause' = cause
    /\ UNCHANGED <<storeVars, max_trials, batch_size, processed_count, remaining,
                   trials, idx, available, current_batch_size, resumed,
                   poolVars, mainVars>>

\* await db_connector.save_trial_tags(nct_id, llm_tags)
Save ==
    /\ pc = "save"
    /\ \E fails \in BOOLEAN :
         LET tags == processed_trial.value["llm_generated_tags"] IN
         \E issued \in (IF fails THEN 0..Len(Statements(tags))
                                  ELSE {Len(Statements(tags))}) :
           LET r == SaveTrialTags(db, trials[idx], tags, fails, issued) IN
           /\ db' = r.db
           /\ IF r.raised
              THEN Abort("save", trials[idx])
              ELSE /\ pc' = "mark"
                   /\ log' = Append(log, Event("save", trials[idx], TRUE, FALSE))
                   /\ cause' = cause
    /\ UNCHANGED <<studies, found, last, before, ncalls, parseVars, max_trials,
                   batch_size, processed_count, remaining, trials, idx, success,
                   available, current_batch_size, resumed, poolVars, mainVars>>

\* the count advanced for the successes only
CountSuccesses(count, succeeded) == IF succeeded THEN count + 1 ELSE count

\* processed_count += 1, whatever success is
Counted(count, succeeded) == count + 1

\* the budget never recomputed
StaleRemaining(maximum, count) == maximum

\* remaining = max_trials - processed_count
Remaining(maximum, count) == maximum - count

\* await db_connector.mark_trial_processed(nct_id, success=success)
\* processed_count += 1; after the last trial of the batch,
\* if max_trials is not None: remaining = max_trials - processed_count
Mark ==
    /\ pc = "mark"
    /\ \/ /\ Abort("mark", trials[idx])
          /\ UNCHANGED <<db, processed_count, remaining, idx>>
       \/ LET r == MarkTrialProcessed(db, trials[idx], success, DefaultVersion) IN
          /\ db' = r.db
          /\ IF r.raised
             THEN /\ Abort("mark", trials[idx])
                  /\ UNCHANGED <<processed_count, remaining, idx>>
             ELSE /\ log' = Append(log, Event("mark", trials[idx], success, FALSE))
                  /\ processed_count' = Counted(processed_count, success)
                  /\ cause' = cause
                  /\ IF idx = Len(trials)
                     THEN /\ remaining' = IF max_trials # None
                                          THEN Remaining(max_trials, processed_count')
                                          ELSE remaining
                          /\ pc' = "loop"
                          /\ idx' = idx
                     ELSE /\ remaining' = remaining
                          /\ pc' = "extract"
                          /\ idx' = idx + 1
    /\ UNCHANGED <<studies, found, last, before, ncalls, parseVars, max_trials,
                   batch_size, trials, success, available, current_batch_size,
                   resumed, poolVars, mainVars>>

DriverNext == LoopHead \/ Extract \/ Save \/ Mark

SpecDriver == DriverInit /\ [][DriverNext]_vars

\* the event loop runs the driver's coroutine whenever it can take a step
SpecDriverFair == SpecDriver /\ WF_vars(DriverNext)

(***************************************************************************)
(* Properties of process_trials.                                           *)
(***************************************************************************)
\* the calls of one collaborator that returned
Calls(name) == {i \in DOMAIN log : log[i].call = name /\ ~log[i].raised}

Marked(nct_id) == HasRow(db.processed_trials, [nct_id |-> nct_id])

\* C4: the processed count never exceeds the maximum and always equals the
\* number of mark_trial_processed calls made; a run that returns (no
\* collaborator raised) has processed exactly min(max_trials, N) records, N
\* the number of records unprocessed when it began.
C4_RespectsMaximum ==
    /\ processed_count <= max_trials
    /\ processed_count = Cardinality(Calls("mark"))
    /\ pc = "done" => processed_count = Min(max_trials, Cardinality(available))

\* three records were unprocessed, the maximum was two, and the run returned
\* after two batches
C4_Witness ==
    /\ pc = "done"
    /\ Cardinality(available) = 3 /\ max_trials = 2 /\ batch_size = 1
    /\ processed_count = 2

\* C5: the run ends (it returns, or a collaborator's exception ends it), and
\* when find_unprocessed_trials returns no record the run returns at once
\* with the count so far, whatever budget remains, making no call to the
\* extractor, to save_trial_tags or to mark_trial_processed.
C5_Terminates ==
    /\ <>(pc \in {"done", "aborted"})
    /\ [][ ( /\ pc = "loop"
             /\ processed_count < max_trials
             /\ Unprocessed(db, studies) = {}
             /\ pc' # "aborted" )
           => ( /\ pc' = "done"
                /\ processed_count' = processed_count
                /\ log' = Append(log, Event("find", 0, TRUE, FALSE)) ) ]_vars

\* (the find event records the number of records returned)
\* the first query found nothing and the run returned 0 with budget left
C5_Witness ==
    /\ pc = "done"
    /\ available = {} /\ max_trials > 0
    /\ processed_count = 0
    /\ log = << Event("find", 0, TRUE, FALSE) >>

\* C6 (as claimed): a failure of the extractor call or of save_trial_tags for
\* one record does not end the run: when the run is over and no
\* find_unprocessed_trials or mark_trial_processed call raised, every record of
\* the last batch has been marked.
C6_FailuresIsolated ==
    (pc \in {"done", "aborted"} /\ cause \notin {"find", "mark"}) =>
        \A i \in DOMAIN trials : Marked(trials[i])

\* C7 (as claimed): when save_trial_tags raised for a record, the run leaves
\* that record with a processed_trials row whose success flag is false.
C7_SaveFailureMarksFailed ==
    (pc \in {"done", "aborted"} /\ cause = "save") =>
        HasRow(db.processed_trials,
               [nct_id |-> trials[idx], successfully_processed |-> FALSE])

\* the calls made for one record, returned or raised
CallsFor(name, nct_id) ==
    {i \in DOMAIN log : log[i].call = name /\ log[i].nct_id = nct_id}

\* the mark_trial_processed calls that returned, by their success argument
Marks(flag) == {i \in Calls("mark") : log[i].flag = flag}

\* C17: mark_trial_processed(success=true) is called for a record only right
\* after save_trial_tags has returned for it, itself called right after an
\* extractor result without "error"; mark_trial_processed(success=false) is
\* called right after an extractor result with "error", and save_trial_tags
\* is never called for such a record.
C17_SaveThenMark ==
    /\ pc = "save" =>
         /\ success
         /\ "error" \notin DOMAIN processed_trial.value["llm_generated_tags"]
         /\ log[Len(log)] = Event("extract", trials[idx], TRUE, FALSE)
    /\ pc = "mark" =>
         /\ success <=>
              "error" \notin DOMAIN processed_trial.value["llm_generated_tags"]
         /\ log[Len(log)] =
              Event(IF success THEN "save" ELSE "extract", trials[idx], TRUE, FALSE)
         /\ ~success => CallsFor("save", trials[idx]) = {}
    /\ \A i \in Marks(TRUE) :
         /\ i > 2
         /\ log[i - 1] = Event("save", log[i].nct_id, TRUE, FALSE)
         /\ log[i - 2] = Event("extract", log[i].nct_id, TRUE, FALSE)
    /\ \A i \in Marks(FALSE) :
         /\ i > 1
         /\ log[i - 1] = Event("extract", log[i].nct_id, TRUE, FALSE)
         /\ CallsFor("save", log[i].nct_id) = {}

\* a run returned after it had saved and marked one record and marked
\* another one failed
C17_Witness ==
    /\ pc = "done"
    /\ Marks(TRUE) # {} /\ Marks(FALSE) # {}
    /\ \E i \in Marks(FALSE) : log[i - 1].call = "extract"
    /\ \E i \in Marks(TRUE) : log[i - 1].call = "save"

\* C18: the processed count is the number of mark_trial_processed calls that
\* were made with success=true plus the number made with success=false, and
\* while the run has not been ended by an exception no other mark call was
\* made; each such call added one processed_trials row; the value returned
\* is that count.
C18_CountsEveryOutcome ==
    /\ processed_count = Cardinality(Marks(TRUE)) + Cardinality(Marks(FALSE))
    /\ pc # "aborted" =>
         processed_count = Cardinality({i \in DOMAIN log : log[i].call = "mark"})
    /\ Len(db.processed_trials) = Cardinality(studies \ available) + processed_count

\* a run returned 2 after one record was marked failed and one succeeded
C18_Witness ==
    /\ pc = "done"
    /\ processed_count = 2
    /\ Cardinality(Marks(TRUE)) = 1 /\ Cardinality(Marks(FALSE)) = 1

\* C19: no record is passed to the extractor twice in a run: the records of
\* the current batch that are still to be processed have no processed_trials
\* row and have not been extracted, and a record that was marked, failed or
\* not, keeps its row.
C19_NoRecordTwice ==
    /\ \A id \in studies : Cardinality(CallsFor("extract", id)) <= 1
    /\ pc \in {"extract", "save", "mark"} =>
         /\ \A k \in idx..Len(trials) : ~Marked(trials[k])
         /\ \A k \in (idx + 1)..Len(trials) : CallsFor("extract", trials[k]) = {}
         /\ pc = "extract" => CallsFor("extract", trials[idx]) = {}
    /\ \A i \in Calls("mark") : Marked(log[i].nct_id)

\* a record failed in the first batch and a later batch of the same run
\* returned other records
C19_Witness ==
    /\ pc = "done"
    /\ \E i \in Marks(FALSE), j \in Calls("find") :
         /\ i < j
         /\ log[j].nct_id > 0
         /\ HasRow(db.processed_trials,
                   [nct_id |-> log[i].nct_id, successfully_processed |-> FALSE])

\* C20: a step of the loop head with processed count >= maximum ends the run
\* without a store call; any other step of it calls find_unprocessed_trials
\* with the limit min(batch size, maximum - processed count), which lies
\* between 1 and the batch size, and gets at most that many records; the
\* store is queried by no other step.
C20_LoopControl ==
    /\ [][ pc = "loop" =>
             IF processed_count >= max_trials
             THEN pc' = "done" /\ log' = log
             ELSE /\ Len(log') = Len(log) + 1
                  /\ log'[Len(log')].call = "find"
                  /\ current_batch_size' = Min(batch_size, max_trials - processed_count)
                  /\ 1 <= current_batch_size'
                  /\ current_batch_size' <= batch_size
                  /\ pc' # "aborted" => Len(trials') <= current_batch_size' ]_vars
    /\ [][ (Len(log') > Len(log) /\ log'[Len(log')].call = "find") =>
             (pc = "loop" /\ processed_count < max_trials) ]_vars

\* with maximum 3 and batch size 2 the second round asked for one record
C20_Witness ==
    /\ pc = "done"
    /\ max_trials = 3 /\ batch_size = 2
    /\ processed_count = 3
    /\ current_batch_size = 1

(***************************************************************************)
(* Properties of the store.                                                *)
(***************************************************************************)
RowsFor(table, nct_id) == SelectSeq(table, LAMBDA r : r.nct_id = nct_id)

\* C1: save_trial_tags is all-or-nothing: when a call raises, after any number
\* of its statements were executed, every tag table is as it was before the
\* call (no row written by the call remains).
C1_SaveAllOrNothing ==
    (last.op = "save" /\ last.raised) => \A t \in TagTables : db[t] = before[t]

\* a call failed after at least one of its statements had been executed, on a
\* store that already held tag rows
C1_Witness ==
    /\ last.op = "save" /\ last.raised /\ last.partial
    /\ last.tags = TagsFull
    /\ db.condition_tags # <<>>

\* C2: every record find_unprocessed_trials returns is in the trial table and
\* has no processed_trials row, whatever that row's success flag would be.
C2_FindExcludesProcessed ==
    last.op = "find" =>
        \A i \in DOMAIN found :
            /\ found[i] \in studies
            /\ ~HasRow(db.processed_trials, [nct_id |-> found[i]])

\* a find returned a record while another record of the trial table held a
\* failure row
C2_Witness ==
    /\ last.op = "find" /\ found # <<>>
    /\ \E s \in studies :
         HasRow(db.processed_trials,
                [nct_id |-> s, successfully_processed |-> FALSE])

\* C3: mark_trial_processed never raises; after a call the record has exactly
\* one processed_trials row, carrying the success flag and version of that
\* call, and the rows of the other records are untouched (so after any
\* sequence of calls each record has one row with the values of its last call).
C3_MarkIdempotent ==
    /\ \A id \in TrialIds : Len(RowsFor(db.processed_trials, id)) <= 1
    /\ last.op = "mark" =>
         /\ ~last.raised
         /\ RowsFor(db.processed_trials, last.nct_id) =
              << [nct_id |-> last.nct_id,
                  successfully_processed |-> last.success,
                  processing_version |-> last.version] >>
         /\ \A id \in TrialIds \ {last.nct_id} :
              RowsFor(db.processed_trials, id) = RowsFor(before.processed_trials, id)

\* a record already marked was marked again with another success flag and
\* another version
C3_Witness ==
    /\ last.op = "mark" /\ last.repeat
    /\ \E i \in DOMAIN before.processed_trials :
         /\ before.processed_trials[i].nct_id = last.nct_id
         /\ before.processed_trials[i].successfully_processed # last.success
         /\ before.processed_trials[i].processing_version # last.version

\* C10: save_trial_tags is idempotent: a call that repeats the committed call
\* just before it (same record, same tag set) leaves every table unchanged.
C10_SaveIdempotent ==
    (last.op = "save" /\ last.repeat) => db = before

\* the full tag set was saved twice in succession and both calls committed
C10_Witness ==
    /\ last.op = "save" /\ last.repeat /\ ~last.raised
    /\ last.tags = TagsFull

\* SELECT ct.condition_name, tc.relevance_score FROM trial_conditions tc
\* JOIN condition_tags ct ON ct.id = tc.condition_id WHERE tc.nct_id = $1
ReadBack(d, nct_id) ==
    { <<d.condition_tags[i].name, d.trial_conditions[j].relevance_score>> :
        <<i, j>> \in { x \in (DOMAIN d.condition_tags) \X (DOMAIN d.trial_conditions) :
                         /\ d.trial_conditions[x[2]].nct_id = nct_id
                         /\ d.trial_conditions[x[2]].tag_id = d.condition_tags[x[1]].id } }

\* the elements of a sequence
Range(q) == {q[i] : i \in DOMAIN q}

\* C11 (as claimed): after a committed save_trial_tags call for a record that
\* had no condition link, the condition names read back for the record are
\* the names of the saved tag set, whatever their order in it, and each
\* relevance score read back is the score the tag set gives to its name.
C11_RoundTrip ==
    ( /\ last.op = "save" /\ ~last.raised
      /\ "condition_tags" \in DOMAIN last.tags
      /\ RowsFor(before.trial_conditions, last.nct_id) = <<>> ) =>
        /\ {p[1] : p \in ReadBack(db, last.nct_id)} = Range(last.tags["condition_tags"])
        /\ "condition_scores" \in DOMAIN last.tags =>
              ReadBack(db, last.nct_id) =
                { <<last.tags["condition_tags"][i], last.tags["condition_scores"][i]>> :
                    i \in DOMAIN last.tags["condition_tags"] }

\* the stage name is one of the pre-registered disease_stages rows
Registered(stage) == \E k \in DOMAIN DiseaseStages : DiseaseStages[k].name = stage

\* the rows a tag set's stage_relevance asks for: one per registered stage,
\* none for any other name
StageRows(nct_id, items) ==
    { [nct_id |-> nct_id, tag_id |-> StageId(items[i][1]),
       relevance_score |-> items[i][2]] :
        i \in {k \in DOMAIN items : Registered(items[k][1])} }

\* C12: a save_trial_tags call whose stage_relevance names a stage that is
\* not registered issues only the SELECT for that stage, so it commits like
\* any other call none of whose statements fails; after it has committed the
\* record has a trial_stage_relevance row with the given score for every
\* registered stage of the call, every row of that table refers to a
\* registered stage, and the other sub-collections of the call are persisted
\* (its condition links and its eligibility summary are there).
C12_UnknownStageSkipped ==
    ( /\ last.op = "save" /\ ~last.raised
      /\ "stage_relevance" \in DOMAIN last.tags
      /\ \E i \in DOMAIN last.tags["stage_relevance"] :
            ~Registered(last.tags["stage_relevance"][i][1]) ) =>
        /\ StageRows(last.nct_id, last.tags["stage_relevance"])
             \subseteq Range(db.trial_stage_relevance)
        /\ \A r \in Range(db.trial_stage_relevance) :
             \E k \in DOMAIN DiseaseStages : DiseaseStages[k].id = r.tag_id
        /\ "condition_tags" \in DOMAIN last.tags =>
             {p[1] : p \in ReadBack(db, last.nct_id)}
               = Range(last.tags["condition_tags"])
        /\ "simplified_eligibility" \in DOMAIN last.tags =>
             HasRow(db.simplified_eligibility,
                    [nct_id |-> last.nct_id,
                     summary |-> last.tags["simplified_eligibility"]])

\* a tag set with the stages "early" and "terminal" was saved: the call
\* committed, wrote the row of "early" and no second stage row
C12_Witness ==
    /\ last.op = "save" /\ ~last.raised
    /\ last.tags = TagsFull
    /\ RowsFor(db.trial_stage_relevance, last.nct_id) =
         << [nct_id |-> last.nct_id, tag_id |-> 1, relevance_score |-> 3] >>
    /\ db.trial_conditions # <<>>

(***************************************************************************)
(* generate_trial_tags by itself, on every response text up to MaxLen.     *)
(***************************************************************************)
StoreIdle ==
    /\ db = EmptyDb
    /\ studies = {}
    /\ found = <<>>
    /\ last = NoCall
    /\ before = EmptyDb
    /\ ncalls = 0

ParseInit ==
    /\ StoreIdle
    /\ DriverIdle
    /\ PoolIdle
    /\ MainIdle
    /\ trial_data \in LlmInputs
    /\ response \in Responses
    /\ processed_trial = NotCalled

Generate ==
    /\ processed_trial = NotCalled
    /\ processed_trial' = GenerateTrialTags(trial_data, response)
    /\ trial_data' = InputAfter(trial_data, processed_trial'.value)
    /\ UNCHANGED <<storeVars, driverVars, poolVars, mainVars, response>>

ParseNext == Generate

SpecParse == ParseInit /\ [][ParseNext]_vars

(***************************************************************************)
(* Properties of generate_trial_tags.                                      *)
(***************************************************************************)
Called == processed_trial # NotCalled

\* positions i < j delimit the span from the first "{" to the last "}"
IsSpan(r, i, j) ==
    /\ i < j
    /\ r[i] = "{" /\ \A k \in 1..(i - 1) : r[k] # "{"
    /\ r[j] = "}" /\ \A k \in (j + 1)..Len(r) : r[k] # "}"

HasSpan(r) == \E i, j \in DOMAIN r : IsSpan(r, i, j)

\* the response holds a span from its first "{" to its last "}" that decodes
Usable(r) ==
    \E i, j \in DOMAIN r : IsSpan(r, i, j) /\ JsonLoads(SubSeq(r, i, j)).ok

C9_TagsAreOuterSpan ==
    Called =>
        \A i, j \in DOMAIN response :
            (IsSpan(response, i, j) /\ JsonLoads(SubSeq(response, i, j)).ok) =>
                /\ ~processed_trial.raised
                /\ processed_trial.value["llm_generated_tags"]
                     = JsonLoads(SubSeq(response, i, j)).value
                /\ processed_trial
                     = GenerateTrialTags(trial_data, SubSeq(response, i, j))

\* an object with prose before it and after it was extracted
C9_Witness ==
    /\ Called
    /\ Usable(response)
    /\ response[1] = "x" /\ response[Len(response)] = "x"
    /\ ~processed_trial.raised
    /\ processed_trial.value["llm_generated_tags"] = [condition_tags |-> <<"NSCLC">>]

(***************************************************************************)
(* PostgresConnector.connect and acquire, called by concurrent asyncio     *)
(* tasks.  The event loop runs one task at a time and switches task only   *)
(* where a task is suspended in an await: on _lock when it is contended,   *)
(* and in asyncpg.create_pool.  One action per stretch between two such    *)
(* suspensions.                                                            *)
(***************************************************************************)
PoolInit ==
    /\ StoreIdle
    /\ ParseIdle
    /\ DriverIdle
    /\ MainIdle
    /\ _pool = None
    /\ _lock = NewLock
    /\ task = [t \in Tasks |-> "start"]
    /\ via \in [Tasks -> {"connect", "acquire"}]
    /\ created = 0
    /\ used = [t \in Tasks |-> None]
    /\ waited = {}
    /\ closes = [p \in Tasks |-> 0]

\* asyncio.Lock.acquire takes the lock without suspending when it is not
\* held and no task is queued for it
LockFree(l) == ~l.locked /\ l.waiters = <<>>

\* the test under the lock left out
NotRechecked(p) == FALSE

\* line 56, under the lock: if self._pool is not None: return
CreatedMeanwhile(p) == p # None

\* connect() has returned to task t while the connector holds pool p.  A
\* direct caller is done; acquire() goes on: if self._pool is None it raises
\* RuntimeError, otherwise it enters self._pool.acquire()
AfterConnect(t, p) ==
    IF via[t] = "connect" THEN "returned"
    ELSE IF p = None THEN "raised" ELSE "using"

\* with the lock held: the second test, then asyncpg.create_pool is awaited
\* or connect() returns and releases the lock
UnderLock(t, queue) ==
    IF CreatedMeanwhile(_pool)
    THEN /\ _lock' = [locked |-> FALSE, waiters |-> queue]
         /\ task' = [task EXCEPT ![t] = AfterConnect(t, _pool)]
         /\ used' = [used EXCEPT ![t] = _pool]
    ELSE /\ _lock' = [locked |-> TRUE, waiters |-> queue]
         /\ task' = [task EXCEPT ![t] = "creating"]
         /\ used' = used

\* task t calls connect(), or acquire(), and runs to its first suspension
Call(t) ==
    /\ task[t] = "start"
    /\ via[t] \in {"connect", "acquire"}
    /\ IF _pool # None
       THEN \* connect(): line 51 returns; acquire(): line 85 skips connect()
            /\ task' = [task EXCEPT ![t] = AfterConnect(t, _pool)]
            /\ used' = [used EXCEPT ![t] = _pool]
            /\ UNCHANGED <<_lock, waited>>
       ELSE IF LockFree(_lock)
       THEN /\ UnderLock(t, _lock.waiters)
            /\ waited' = waited
       ELSE /\ _lock' = [_lock EXCEPT !.waiters = Append(@, t)]
            /\ task' = [task EXCEPT ![t] = "waiting"]
            /\ waited' = waited \cup {t}
            /\ used' = used
    /\ UNCHANGED <<_pool, created, via, closes, storeVars, parseVars, driverVars,
                   mainVars>>

\* the lock was released and t is the first task queued for it: t is woken,
\* takes the lock and goes on under it
Wake(t) ==
    /\ task[t] = "waiting"
    /\ ~_lock.locked
    /\ _lock.waiters # <<>> /\ Head(_lock.waiters) = t
    /\ UnderLock(t, Tail(_lock.waiters))
    /\ UNCHANGED <<_pool, created, via, waited, closes, storeVars, parseVars,
                   driverVars, mainVars>>

\* asyncpg.create_pool returns a new pool: self._pool = it, the lock is
\* released, connect() returns
PoolCreated(t) ==
    /\ task[t] = "creating"
    /\ created' = created + 1
    /\ _pool' = created'
    /\ _lock' = [_lock EXCEPT !.locked = FALSE]
    /\ task' = [task EXCEPT ![t] = AfterConnect(t, _pool')]
    /\ used' = [used EXCEPT ![t] = _pool']
    /\ UNCHANGED <<via, waited, closes, storeVars, parseVars, driverVars, mainVars>>

\* the lock still held after the exception
KeptOnError(l) == l

\* async with self._lock: __aexit__ releases the lock when an exception
\* leaves the block
ReleaseOnError(l) == [l EXCEPT !.locked = FALSE]

\* asyncpg.create_pool raises: the exception leaves the async with block,
\* which releases the lock, and then connect(); in acquire() it leaves
\* line 86, before self._pool.acquire()
CreateFails(t) ==
    /\ task[t] = "creating"
    /\ _lock' = ReleaseOnError(_lock)
    /\ task' = [task EXCEPT ![t] = "raised"]
    /\ UNCHANGED <<_pool, created, used, via, waited, closes, storeVars, parseVars,
                   driverVars, mainVars>>

PoolNext == \E t \in Tasks : Call(t) \/ Wake(t) \/ PoolCreated(t) \/ CreateFails(t)

SpecPool == PoolInit /\ [][PoolNext]_vars

(***************************************************************************)
(* Properties of connect and acquire.                                      *)
(***************************************************************************)
\* the tasks at one place
At(place) == {t \in Tasks : task[t] = place}

\* C13: under every interleaving of tasks calling connect() or acquire() on a
\* connector without a pool, at most one task at a time is inside
\* asyncpg.create_pool and none once a pool exists, so at most one pool is
\* ever created; a task whose call went through found a pool, the one pool
\* created, and no call goes through while the pool is missing; while no
\* create_pool call has failed, the tasks that arrived during the setup are
\* all suspended on the lock and a single task has performed the setup.
C13_SingleInitialisation ==
    /\ created + Cardinality(At("creating")) <= 1
    /\ created = 1 <=> _pool # None
    /\ \A t \in At("returned") \cup At("using") :
         /\ _pool # None
         /\ used[t] = _pool
    /\ At("raised") = {} =>
         /\ \A t \in Tasks \ At("start") :
              \/ task[t] = "creating"
              \/ _pool = None /\ task[t] = "waiting"
              \/ _pool # None /\ task[t] \in {"returned", "using", "waiting"}
         /\ \A t \in At("waiting") :
              \E i \in DOMAIN _lock.waiters : _lock.waiters[i] = t

\* three tasks raced, through connect() and through acquire(): two of them
\* were suspended on the lock during the setup, one pool was created and all
\* three went through with it
C13_Witness ==
    /\ At("returned") \cup At("using") = Tasks
    /\ At("returned") # {} /\ At("using") # {}
    /\ Cardinality(waited) >= 2
    /\ created = 1
    /\ \A t \in Tasks : used[t] = 1

(***************************************************************************)
(* The command interrupted and run again.  The process can be killed at    *)
(* any await of process_trials; a transaction in flight is then rolled     *)
(* back by the server and a statement in flight has either taken effect    *)
(* or not, so a kill falls between two store calls.  A run that was        *)
(* killed, or ended by an exception, is followed by a second run of the    *)
(* command with the same arguments on the same database.  The budget is   *)
(* the smallest or the largest one.                                        *)
(***************************************************************************)
ResumeInit ==
    /\ db = EmptyDb
    /\ studies = TrialIds
    /\ available = TrialIds
    /\ found = <<>>
    /\ last = NoCall
    /\ before = EmptyDb
    /\ ncalls = 0
    /\ ParseIdle
    /\ PoolIdle
    /\ MainIdle
    /\ pc = "loop"
    /\ max_trials \in {1, MaxMax}
    /\ batch_size \in 1..MaxBatch
    /\ processed_count = 0
    /\ remaining = max_trials
    /\ trials = <<>>
    /\ idx = 0
    /\ success = FALSE
    /\ cause = "none"
    /\ log = <<>>
    /\ current_batch_size = 0
    /\ resumed = FALSE

\* the process is killed while process_trials is suspended in an await
Crash ==
    /\ pc \in {"loop", "extract", "save", "mark"}
    /\ pc' = "crashed"
    /\ cause' = "crash"
    /\ log' = Append(log, Event("crash", 0, FALSE, TRUE))
    /\ UNCHANGED <<storeVars, parseVars, poolVars, mainVars, max_trials, batch_size,
                   processed_count, remaining, trials, idx, success, available,
                   current_batch_size, resumed>>

\* the command is run again: process_trials starts afresh (lines 48-49) on
\* the database the first run left
Restart ==
    /\ pc \in {"crashed", "aborted"}
    /\ ~resumed
    /\ resumed' = TRUE
    /\ pc' = "loop"
    /\ processed_count' = 0
    /\ remaining' = max_trials
    /\ trials' = <<>>
    /\ idx' = 0
    /\ success' = FALSE
    /\ cause' = "none"
    /\ current_batch_size' = 0
    /\ log' = Append(log, Event("run", 0, TRUE, FALSE))
    /\ UNCHANGED <<storeVars, parseVars, poolVars, mainVars, max_trials, batch_size,
                   available>>

ResumeNext == DriverNext \/ Crash \/ Restart

SpecResume == ResumeInit /\ [][ResumeNext]_vars

(***************************************************************************)
(* Properties of interrupted and resumed runs.                             *)
(***************************************************************************)
\* the records whose mark_trial_processed call has completed, in this run or
\* in an earlier one
Completed == (studies \ available) \cup {log[i].nct_id : i \in Calls("mark")}

\* no two rows of the table agree on all the columns cols
Unique(table, cols) ==
    \A i, j \in DOMAIN table :
        (\A c \in cols : table[i][c] = table[j][c]) => i = j

\* the unique keys of the tag tables and of the link tables
NoDuplicates(d) ==
    /\ Unique(d.condition_tags, {"name"})
    /\ Unique(d.mechanism_categories, {"name"})
    /\ Unique(d.treatment_targets, {"name"})
    /\ Unique(d.criteria_tags, {"name", "criteria_type"})
    /\ Unique(d.trial_conditions, {"nct_id", "tag_id"})
    /\ Unique(d.trial_mechanisms, {"nct_id", "tag_id"})
    /\ Unique(d.trial_targets, {"nct_id", "tag_id"})
    /\ Unique(d.trial_criteria, {"nct_id", "tag_id"})
    /\ Unique(d.trial_stage_relevance, {"nct_id", "tag_id"})
    /\ Unique(d.simplified_eligibility, {"nct_id"})

\* C14: wherever a run is interrupted, the records a later
\* find_unprocessed_trials can select are exactly those whose
\* mark_trial_processed call had not completed, and the records a run is
\* working on are among them; no record ever has two processed_trials rows
\* and no tag or link row is duplicated, also when a record is saved again
\* after an interruption between its save and its mark; and when the second
\* run returns with budget left, every record has exactly one
\* processed_trials row.
C14_Resumable ==
    /\ Unprocessed(db, studies) = studies \ Completed
    /\ pc \in {"extract", "save", "mark"} =>
         \A k \in idx..Len(trials) : trials[k] \notin Completed
    /\ \A id \in studies : Len(RowsFor(db.processed_trials, id)) <= 1
    /\ NoDuplicates(db)
    /\ (resumed /\ pc = "done" /\ processed_count < max_trials) =>
         \A id \in studies : Len(RowsFor(db.processed_trials, id)) = 1

\* C14 (as claimed): the same, with every record holding exactly one
\* processed_trials row whenever the second run has returned, whatever its
\* budget.
C14_ResumableAsClaimed ==
    /\ Unprocessed(db, studies) = studies \ Completed
    /\ \A id \in studies : Len(RowsFor(db.processed_trials, id)) <= 1
    /\ NoDuplicates(db)
    /\ (resumed /\ pc = "done") =>
         \A id \in studies : Len(RowsFor(db.processed_trials, id)) = 1

\* the first run was killed between the save and the mark of a record; the
\* second run saved that record again, marked it and returned with budget
\* left
C14_Witness ==
    /\ resumed /\ pc = "done" /\ processed_count < max_trials
    /\ \E i, j \in DOMAIN log :
         /\ i + 1 < j
         /\ log[i].call = "save" /\ ~log[i].raised
         /\ log[i + 1].call = "crash"
         /\ log[j] = log[i]
         /\ RowsFor(db.trial_conditions, log[i].nct_id) # <<>>
    /\ \A id \in studies : Len(RowsFor(db.processed_trials, id)) = 1

(***************************************************************************)
(* main: the command.  args.api_key is "" when no key was given (the       *)
(* default, os.environ.get, is then None: both are false for "not").       *)
(* args.max_trials is None unless --max-trials was given.  An exception    *)
(* that leaves main ends the process with exit code 1.                     *)
(***************************************************************************)
MainInit ==
    /\ \E P \in SUBSET RecordIds :
         /\ db = [EmptyDb EXCEPT !.processed_trials = PriorRows(P, 1)]
         /\ available = RecordIds \ P
    /\ studies = RecordIds
    /\ found = <<>>
    /\ last = NoCall
    /\ before = EmptyDb
    /\ ncalls = 0
    /\ ParseIdle
    /\ PoolIdle
    /\ main_pc = "start"
    /\ api_key \in {"", "sk-key"}
    /\ exit_code = 0
    /\ pc = "idle"
    /\ max_trials \in {None} \cup 0..MaxMax
    /\ batch_size \in 1..MaxBatch
    /\ processed_count = 0
    /\ remaining = 0
    /\ trials = <<>>
    /\ idx = 0
    /\ success = FALSE
    /\ cause = "none"
    /\ log = <<>>
    /\ current_batch_size = 0
    /\ resumed = FALSE

\* the test of the key left out
NeverMissing(key) == FALSE

\* if not args.api_key
Missing(key) == key = ""

\* lines 185-189: without a key, logger.error and sys.exit(1)
MainStart ==
    /\ main_pc = "start"
    /\ IF Missing(api_key)
       THEN main_pc' = "exited" /\ exit_code' = 1
       ELSE main_pc' = "connect" /\ exit_code' = exit_code
    /\ UNCHANGED <<api_key, storeVars, parseVars, driverVars, poolVars>>

\* lines 192-216: await db_connector.connect(); when it has returned, the
\* LLMProcessor is built and process_trials is called with args.batch_size
\* and args.max_trials (its lines 48-49 set its locals); when it raises, the
\* exception leaves main
MainConnect ==
    /\ main_pc = "connect"
    /\ \/ /\ created' = created + 1
          /\ _pool' = created'
          /\ main_pc' = "run"
          /\ pc' = "loop"
          /\ processed_count' = 0
          /\ remaining' = max_trials
          /\ UNCHANGED <<exit_code, cause>>
       \/ /\ main_pc' = "exited"
          /\ exit_code' = 1
          /\ cause' = "connect"
          /\ UNCHANGED <<_pool, created, pc, processed_count, remaining>>
    /\ UNCHANGED <<api_key, storeVars, parseVars, _lock, task, via, used, waited,
                   closes, max_trials, batch_size, trials, idx, success, log, available,
                   current_batch_size, resumed>>

\* lines 218-222: process_trials returned or raised; finally:
\* await db_connector.close(); then main returns, or the exception leaves it
MainFinally ==
    /\ main_pc = "run"
    /\ pc \in {"done", "aborted"}
    /\ closes' = [closes EXCEPT ![_pool] = @ + 1]
    /\ _pool' = None
    /\ main_pc' = "exited"
    /\ exit_code' = IF pc = "aborted" THEN 1 ELSE 0
    /\ UNCHANGED <<api_key, storeVars, parseVars, driverVars, _lock, task, via,
                   created, used, waited>>

MainNext == MainStart \/ MainConnect \/ MainFinally \/ DriverNext

SpecMain == MainInit /\ [][MainNext]_vars

(***************************************************************************)
(* Properties of main.                                                     *)
(***************************************************************************)
\* C15 (as claimed): when the command is run with a key and without
\* --max-trials and no collaborator call raises, process_trials drains the
\* store: the command exits with code 0 after process_trials has returned
\* the number of records that were unprocessed, none of which is left.
C15_DefaultDrainsAll ==
    ( /\ main_pc = "exited"
      /\ api_key # ""
      /\ max_trials = None
      /\ cause \notin {"connect", "find", "extract", "save", "mark"} ) =>
        /\ pc = "done"
        /\ exit_code = 0
        /\ Unprocessed(db, studies) = {}
        /\ processed_count = Cardinality(available)

\* C16: when no API key is given the command does no work at any time (no
\* pool is created, process_trials is not entered, no store or extractor
\* call is made, the tables are untouched) and it exits with a non-zero code.
C16_MissingKeyExitsFirst ==
    api_key = "" =>
        /\ main_pc \in {"start", "exited"}
        /\ main_pc = "exited" => exit_code # 0
        /\ created = 0 /\ _pool = None
        /\ pc = "idle" /\ log = <<>>
        /\ processed_trial = NotCalled
        /\ Unprocessed(db, studies) = available

\* the command was run without a key while records were waiting, and has
\* exited with code 1
C16_Witness ==
    /\ api_key = ""
    /\ main_pc = "exited" /\ exit_code = 1
    /\ available # {}
    /\ created = 0 /\ log = <<>>

(***************************************************************************)
(* PostgresConnector.close, called by tasks concurrent with each other and *)
(* with connect and acquire.  close() takes no lock and is suspended in    *)
(* self._pool.close() between its test of _pool and its assignment.        *)
(***************************************************************************)
CloseInit ==
    /\ StoreIdle
    /\ ParseIdle
    /\ DriverIdle
    /\ MainIdle
    /\ _pool = None
    /\ _lock = NewLock
    /\ task = [t \in Tasks |-> "start"]
    /\ via \in [Tasks -> {"connect", "acquire", "close"}]
    /\ created = 0
    /\ used = [t \in Tasks |-> None]
    /\ waited = {}
    /\ closes = [p \in Tasks |-> 0]

\* lines 73-75: without a pool close() returns; with one it calls
\* self._pool.close() and is suspended in it
CloseCall(t) ==
    /\ task[t] = "start"
    /\ via[t] = "close"
    /\ IF _pool = None
       THEN /\ task' = [task EXCEPT ![t] = "returned"]
            /\ closes' = closes
       ELSE /\ task' = [task EXCEPT ![t] = "closing"]
            /\ closes' = [closes EXCEPT ![_pool] = @ + 1]
    /\ UNCHANGED <<_pool, _lock, via, created, used, waited, storeVars, parseVars,
                   driverVars, mainVars>>

\* line 76: self._pool.close() has returned; self._pool = None, whatever
\* self._pool is by now
CloseReturns(t) ==
    /\ task[t] = "closing"
    /\ _pool' = None
    /\ task' = [task EXCEPT ![t] = "returned"]
    /\ UNCHANGED <<_lock, via, created, used, waited, closes, storeVars, parseVars,
                   driverVars, mainVars>>

CloseNext == PoolNext \/ \E t \in Tasks : CloseCall(t) \/ CloseReturns(t)

SpecClose == CloseInit /\ [][CloseNext]_vars

(***************************************************************************)
(* Properties of close.                                                    *)
(***************************************************************************)
\* C21 (as claimed): under every interleaving of close() with close(),
\* connect() and acquire(), no pool has close() called on it twice, and once
\* the connector holds no pool and no close() is under way, every pool that
\* was created has been closed.
C21_ClosedExactlyOnce ==
    /\ \A p \in 1..created : closes[p] <= 1
    /\ (_pool = None /\ At("closing") = {}) =>
         \A p \in 1..created : closes[p] = 1

(***************************************************************************)
(* Further properties of save_trial_tags.                                  *)
(***************************************************************************)
\* the call before the state provided a summary and committed
SummarySaved ==
    /\ last.op = "save" /\ ~last.raised
    /\ "simplified_eligibility" \in DOMAIN last.tags

\* C22: after any sequence of save_trial_tags calls no tag table holds a name
\* twice (criteria_tags no (name, type) pair twice), no link table holds a
\* (record, tag) pair twice and no record has two simplified_eligibility
\* rows; a committed call that provides a summary leaves that summary as the
\* record's row, and any other call (failed, or without a summary) leaves
\* the table as it was, so the row holds the summary of the last successful
\* call that provided one.
C22_UniqueRows ==
    /\ NoDuplicates(db)
    /\ SummarySaved =>
         /\ RowsFor(db.simplified_eligibility, last.nct_id) =
              << [nct_id |-> last.nct_id,
                  summary |-> last.tags["simplified_eligibility"]] >>
         /\ \A id \in TrialIds \ {last.nct_id} :
              RowsFor(db.simplified_eligibility, id) =
                RowsFor(before.simplified_eligibility, id)
    /\ (last.op = "save" /\ ~SummarySaved) =>
         db.simplified_eligibility = before.simplified_eligibility

\* a record saved with the summary "adults" and with one phrase as inclusion
\* and as exclusion criterion was saved again with a tag set that repeats a
\* condition name and gives the summary "children"
C22_Witness ==
    /\ last.op = "save" /\ ~last.raised /\ last.tags = TagsRerun
    /\ HasRow(before.simplified_eligibility,
              [nct_id |-> last.nct_id, summary |-> "adults"])
    /\ Len(db.criteria_tags) = 2
    /\ db.criteria_tags[1].name = db.criteria_tags[2].name
    /\ Len(db.condition_tags) = 2
    /\ Len(RowsFor(db.trial_conditions, last.nct_id)) = 2

(***************************************************************************)
(* Tag objects that lack fields.                                           *)
(***************************************************************************)
ExpectedFields ==
    { "condition_tags", "mechanisms", "treatment_targets",
      "simplified_eligibility", "inclusion_criteria", "exclusion_criteria",
      "stage_relevance" }

\* the fields whose section of save_trial_tags writes the table
FieldsOf(table) ==
    CASE table \in {"condition_tags", "trial_conditions"} -> {"condition_tags"}
      [] table \in {"mechanism_categories", "trial_mechanisms"} -> {"mechanisms"}
      [] table \in {"treatment_targets", "trial_targets"} -> {"treatment_targets"}
      [] table = "simplified_eligibility" -> {"simplified_eligibility"}
      [] table \in {"criteria_tags", "trial_criteria"} ->
           {"inclusion_criteria", "exclusion_criteria"}
      [] table = "trial_stage_relevance" -> {"stage_relevance"}

\* C23: an extracted object that lacks expected fields (the empty object
\* included) and has no "error" field is a success: the driver calls
\* save_trial_tags for it; the call issues statements for the present fields
\* only, and when it returns no table of a missing field has changed; the
\* mark_trial_processed call that follows leaves the record with a
\* processed_trials row whose success flag is true.
C23_MissingFieldsSkipped ==
    /\ [][ ( /\ pc = "extract" /\ pc' \in {"save", "mark"}
             /\ "error" \notin DOMAIN processed_trial'.value["llm_generated_tags"]
             /\ ExpectedFields \ DOMAIN processed_trial'.value["llm_generated_tags"] # {} )
           => (pc' = "save" /\ success') ]_vars
    /\ [][ (pc = "save" /\ pc' = "mark") =>
             LET tags == processed_trial.value["llm_generated_tags"] IN
             /\ Len(Statements(tags)) =
                  IF "condition_tags" \in DOMAIN tags
                  THEN 2 * Len(tags["condition_tags"]) ELSE 0
             /\ \A t \in TagTables :
                  FieldsOf(t) \cap DOMAIN tags = {} => db'[t] = db[t] ]_vars
    /\ [][ (pc = "mark" /\ success /\ pc' \in {"extract", "loop"}) =>
             RowsFor(db'.processed_trials, trials[idx]) =
               << [nct_id |-> trials[idx], successfully_processed |-> TRUE,
                   processing_version |-> DefaultVersion] >> ]_vars

\* the extractor returned the empty object for a record: save_trial_tags
\* returned, the record was marked with success = true and no tag table
\* holds a row
C23_Witness ==
    /\ pc = "loop" /\ Len(log) > 2
    /\ processed_trial.value["llm_generated_tags"] = EmptyObject
    /\ log[Len(log)] = Event("mark", trials[idx], TRUE, FALSE)
    /\ log[Len(log) - 1] = Event("save", trials[idx], TRUE, FALSE)
    /\ HasRow(db.processed_trials,
              [nct_id |-> trials[idx], successfully_processed |-> TRUE])
    /\ \A t \in TagTables : db[t] = <<>>

(***************************************************************************)
(* The value generate_trial_tags returns and its argument.                 *)
(***************************************************************************)
\* the two objects generate_trial_tags builds itself
ErrorObjects ==
    { [error |-> "Could not extract JSON from LLM response"],
      [error |-> "Failed to parse JSON from LLM response"] }

\* the decoded span of the response, or one of the error objects
IsTagsOf(tags_data, r) ==
    \/ tags_data \in ErrorObjects
    \/ \E i, j \in DOMAIN r :
         /\ IsSpan(r, i, j)
         /\ JsonLoads(SubSeq(r, i, j)).ok
         /\ tags_data = JsonLoads(SubSeq(r, i, j)).value

\* C24: for every input and every response, generate_trial_tags returns a
\* mapping whose keys are the input's keys and llm_generated_tags; every
\* input key other than llm_generated_tags has the input's value,
\* llm_generated_tags holds the decoded object or an error object (a value
\* the input had under that key is replaced), and the caller's mapping is
\* as it was before the call.
C24_MergedCopy ==
    [][ (processed_trial = NotCalled /\ processed_trial' # NotCalled) =>
          /\ ~processed_trial'.raised
          /\ DOMAIN processed_trial'.value =
               DOMAIN trial_data \cup {"llm_generated_tags"}
          /\ \A k \in DOMAIN trial_data \ {"llm_generated_tags"} :
               processed_trial'.value[k] = trial_data[k]
          /\ IsTagsOf(processed_trial'.value["llm_generated_tags"], response)
          /\ trial_data' = trial_data ]_vars

\* C24 (as claimed): the same, with every key of the input, llm_generated_tags
\* included, keeping the input's value in the result.
C24_MergedCopyAsClaimed ==
    [][ (processed_trial = NotCalled /\ processed_trial' # NotCalled) =>
          /\ ~processed_trial'.raised
          /\ DOMAIN processed_trial'.value =
               DOMAIN trial_data \cup {"llm_generated_tags"}
          /\ \A k \in DOMAIN trial_data :
               processed_trial'.value[k] = trial_data[k]
          /\ IsTagsOf(processed_trial'.value["llm_generated_tags"], response)
          /\ trial_data' = trial_data ]_vars

\* a record that carried the error object of an earlier call was tagged
\* again: the result holds the decoded tags, the argument still the error
\* object
C24_Witness ==
    /\ Called /\ ~processed_trial.raised
    /\ "llm_generated_tags" \in DOMAIN trial_data
    /\ trial_data["llm_generated_tags"] \in ErrorObjects
    /\ processed_trial.value["llm_generated_tags"] = [condition_tags |-> <<"NSCLC">>]
    /\ processed_trial.value["BriefTitle"] = trial_data["BriefTitle"]

(***************************************************************************)
(* Failure of asyncpg.create_pool.                                         *)
(***************************************************************************)
\* C25: when asyncpg.create_pool raises inside connect(), called directly or
\* through acquire(), the call of that task ends with the exception: it
\* never enters self._pool.acquire(), the connector still holds no pool, no
\* pool is counted as created and the lock is released.  At every moment a
\* task is inside a store operation only with the pool the connector holds,
\* and the lock is held only while a task is inside create_pool; a task
\* that gets past the lock while the connector holds no pool calls
\* create_pool again, whatever failed before.
C25_FailureLeavesRetryable ==
    /\ [](\A t \in At("raised") : used[t] = None)
    /\ [](\A t \in At("using") : used[t] # None /\ used[t] = _pool)
    /\ [](_lock.locked => At("creating") # {})
    /\ [][ \A t \in Tasks :
             (task[t] = "creating" /\ task'[t] = "raised") =>
                /\ _pool = None /\ _pool' = None
                /\ created' = created
                /\ ~_lock'.locked ]_vars
    /\ [][ \A t \in Tasks :
             ( /\ task[t] \in {"start", "waiting"}
               /\ task'[t] \notin {"start", "waiting"}
               /\ _pool = None ) => task'[t] = "creating" ]_vars

\* create_pool failed for a task that had called connect() and for a task
\* that had called acquire(); a later task, which had waited for the lock,
\* created the pool and is using it
C25_Witness ==
    /\ \E t \in At("raised") : via[t] = "connect"
    /\ \E t \in At("raised") : via[t] = "acquire"
    /\ \E t \in At("using") : t \in waited /\ used[t] = 1
    /\ created = 1 /\ _pool = 1
    /\ ~_lock.locked

(***************************************************************************)
(* The success flag and the tag rows, over interrupted and resumed runs.   *)
(***************************************************************************)
\* C26: in every state of a run and of the run after an interruption, a
\* record with a processed_trials row whose success flag is true was marked
\* by a mark_trial_processed(success=true) call, and every such call came
\* right after a save_trial_tags call for the same record that had returned
\* (its transaction committed), in the same run; while the driver is about
\* to mark a record successful, and after it has, the conditions of the
\* saved tags are linked to the record.
C26_SuccessImpliesSaved ==
    /\ [](\A id \in studies :
            HasRow(db.processed_trials,
                   [nct_id |-> id, successfully_processed |-> TRUE]) =>
              \E j \in Marks(TRUE) : log[j].nct_id = id)
    /\ [](\A j \in Marks(TRUE) :
            /\ j > 1
            /\ log[j - 1] = Event("save", log[j].nct_id, TRUE, FALSE))
    /\ []((pc = "mark" /\ success) =>
            LET tags == processed_trial.value["llm_generated_tags"] IN
            "condition_tags" \in DOMAIN tags =>
               Range(tags["condition_tags"])
                 \subseteq {q[1] : q \in ReadBack(db, trials[idx])})
    /\ [][ (pc = "mark" /\ success /\ pc' \in {"extract", "loop"}) =>
             LET tags == processed_trial.value["llm_generated_tags"] IN
             "condition_tags" \in DOMAIN tags =>
                Range(tags["condition_tags"])
                  \subseteq {q[1] : q \in ReadBack(db', trials[idx])} ]_vars

\* save_trial_tags raised for a record and ended the first run; the second
\* run saved the record's tags and then marked it successful
C26_Witness ==
    /\ resumed
    /\ \E i, j \in DOMAIN log :
         /\ i < j
         /\ log[i] = Event("save", log[j].nct_id, FALSE, TRUE)
         /\ j \in Marks(TRUE)
         /\ log[j - 1] = Event("save", log[j].nct_id, TRUE, FALSE)
         /\ RowsFor(db.trial_conditions, log[j].nct_id) # <<>>
         /\ HasRow(db.processed_trials,
                   [nct_id |-> log[j].nct_id, successfully_processed |-> TRUE])

(***************************************************************************)
(* What save_trial_tags leaves in place.                                   *)
(***************************************************************************)
\* the tables with a column save_trial_tags updates on conflict
UpdatedOnConflict ==
    { "trial_conditions", "trial_mechanisms", "trial_stage_relevance",
      "simplified_eligibility" }

\* the ids of the tags one link table links to the record
LinkedTags(d, table, nct_id) ==
    {d[table][i].tag_id : i \in {k \in DOMAIN d[table] : d[table][k].nct_id = nct_id}}

\* C27: a save_trial_tags call deletes nothing: every row a tag table held
\* before the call is still there after it, unchanged, or, in a table with a
\* score or summary column, a row of the record the call was for with the
\* same key; so the rows of other records are unchanged and the tags linked
\* to a record by each link table only grow; no call changes
\* processed_trials or the trial table.
C27_NeverDeletes ==
    /\ [](last.op = "save" =>
            \A t \in TagTables :
              /\ Len(db[t]) >= Len(before[t])
              /\ \A i \in DOMAIN before[t] :
                   \/ db[t][i] = before[t][i]
                   \/ /\ t \in UpdatedOnConflict
                      /\ before[t][i].nct_id = last.nct_id
                      /\ db[t][i].nct_id = last.nct_id
                      /\ t # "simplified_eligibility" =>
                           db[t][i].tag_id = before[t][i].tag_id)
    /\ [](last.op = "save" =>
            \A id \in TrialIds :
              \A t \in {"trial_conditions", "trial_mechanisms", "trial_targets",
                        "trial_criteria", "trial_stage_relevance"} :
                LinkedTags(before, t, id) \subseteq LinkedTags(db, t, id))
    /\ [][ /\ db'.processed_trials = db.processed_trials
           /\ studies' = studies ]_vars

\* a record saved with the full tag set was saved again with the condition
\* "NSCLC" only: it still has its two condition links and its mechanism
\* link, another record has links of its own, and the processed_trials row
\* of the earlier run is in place
C27_Witness ==
    /\ last.op = "save" /\ ~last.raised /\ last.tags = TagsExample
    /\ Len(RowsFor(db.trial_conditions, last.nct_id)) = 2
    /\ RowsFor(db.trial_mechanisms, last.nct_id) # <<>>
    /\ \E id \in TrialIds \ {last.nct_id} : RowsFor(db.trial_conditions, id) # <<>>
    /\ Len(db.processed_trials) = 1

====
